---- MODULE Spec2Model ----
(***************************************************************************)
(* Water-level IoT device simulators (cwl-iot-simulater, src/python).      *)
(*                                                                         *)
(* Units: time in milliseconds, water level in millimetres, the WaterLevel *)
(* metric of a Sparkplug payload in hundredths of a centimetre.            *)
(* One behaviour is one run of one of the programs of the repository:      *)
(* a single simulator object driven by the main thread, or a fleet         *)
(* coordinator with one thread per configured device.                      *)
(***************************************************************************)
EXTENDS Integers, Sequences, FiniteSets, TLC

VARIABLES
    program,            \* which class the main thread drives
    now,                \* time.time(), observed up to MaxTime
    duration_minutes,   \* argument of start_simulation / start_all_simulators
    pc,                 \* position of each runner inside its run
    running,            \* WaterLevelDevice.running / SparkplugBDevice.running
    current_level,      \* self.current_level
    seq_number,         \* self.seq_number
    rain_event_active,  \* self.rain_event_active
    rain_start_time,    \* self.rain_start_time
    rain_duration,      \* self.rain_duration
    end_time,           \* local end_time of the run
    start_time,         \* local start_time of the run
    wake,               \* instant at which the runner's current time.sleep ends
    payload,            \* payload built by the last create/generate call
    pending,            \* an exception is propagating through the finally block
    connect_ok,         \* result of the run's connect call
    disconnects,        \* number of disconnect calls of the run
    at_start,           \* simulation state when the run was called
    prev_seq,           \* seq of the payload created before the last one
    frames,             \* publish attempts of the run (counted up to MaxCount)
    births,             \* publish attempts on the NBIRTH topic (up to MaxCount)
    first_topic,        \* topic of the first publish attempt of the run
    last_pub,           \* last publish attempt of the run
    cpc,                \* position of the coordinator (main thread of a fleet)
    crunning,           \* coordinator's self.running
    ck,                 \* index of the coordinator's current loop
    interrupts,         \* KeyboardInterrupts delivered to the main thread
    calls,              \* calls of start_simulation / start_all_simulators
    simulators,         \* coordinator's self.simulators (device_index of each)
    connack,            \* result code last given to the _on_connect callback
    consumer,           \* a consumer is subscribed to the devices' topics
    observed            \* seq of the last frame the consumer received

vars == <<program, now, duration_minutes, pc, running, current_level,
          seq_number, rain_event_active, rain_start_time, rain_duration,
          end_time, wake, payload, pending, connect_ok, disconnects,
          at_start, prev_seq, frames, births, first_topic, last_pub,
          cpc, crunning, ck, interrupts, start_time, calls, simulators,
          connack, consumer, observed>>

----------------------------------------------------------------------------
(* Bounds of the exploration *)

\* instants later than MaxTime are identified with MaxTime
MaxTime == 250000
\* KeyboardInterrupts delivered in one behaviour
MaxInterrupts == 1
\* ticks explored per runner thread of a fleet
MaxFleetTicks == 2
\* calls of start_simulation / start_all_simulators on one object
MaxCalls == 2
\* device_index values for which the per-device parameters are compared
MaxDeviceIndex == 4
\* the publish counters stop counting here
MaxCount == MaxFleetTicks + 1

\* time.time() when the program starts
StartTime == 1000

None == -1

\* values of random.randint(120, 300), in seconds
RainDurationDraws == {120, 150, 180}
\* duration_minutes arguments
DurationDraws == {None, 1}

Min(a, b) == IF a < b THEN a ELSE b
Max(a, b) == IF a > b THEN a ELSE b

----------------------------------------------------------------------------
(* Programs, classes and their construction-time parameters *)

SinglePrograms == {"WaterLevelSimulator", "SparkplugBWaterLevelSimulator",
                   "WaterLevelDevice", "SparkplugBDevice"}
FleetPrograms == {"MultiDeviceWaterLevelSimulator",
                  "SparkplugBMultiDeviceSimulator"}
Programs == SinglePrograms \cup FleetPrograms

\* device_configs holds two profiles in both coordinators
NumProfiles == 2
Runners == 1..NumProfiles

\* the runners that exist in a program
RunnersOf(p) == IF p \in FleetPrograms THEN Runners ELSE {1}

\* class of the runner objects of a program
ClassOf(p) ==
    CASE p = "MultiDeviceWaterLevelSimulator" -> "WaterLevelDevice"
      [] p = "SparkplugBMultiDeviceSimulator" -> "SparkplugBDevice"
      [] OTHER -> p

SparkplugClasses == {"SparkplugBWaterLevelSimulator", "SparkplugBDevice"}
\* classes whose loop is `while self.running`
FlagClasses == {"WaterLevelDevice", "SparkplugBDevice"}
\* classes whose try block has `except KeyboardInterrupt`
CatchingClasses == {"WaterLevelSimulator", "SparkplugBWaterLevelSimulator"}

\* device_index given to runner r (create_simulators: i+1; default 1)
device_index(r) == r

\* base_level of profile i, in mm
base_level(i) == IF i = 1 THEN 1500 ELSE 2000

base_water_level(c, r) ==
    IF c \in FlagClasses THEN base_level(device_index(r)) ELSE 1500

\* self.max_variation in mm
max_variation(c, r) ==
    CASE c = "WaterLevelDevice" -> 200 + device_index(r) * 100
      [] c = "SparkplugBDevice" -> 200 + device_index(r) * 50
      [] OTHER -> 300

\* one interval for every device
send_interval_Same(c, r) == 5000

\* self.send_interval in ms
send_interval(c, r) ==
    CASE c = "WaterLevelSimulator" -> 5000
      [] c = "SparkplugBWaterLevelSimulator" -> 60000
      [] c = "WaterLevelDevice" -> (3 + device_index(r)) * 1000
      [] c = "SparkplugBDevice" -> (4 + device_index(r)) * 1000

\* divisor of time.time() in the generator's sine argument (time_factor)
period_divisor(c, r) ==
    CASE c = "WaterLevelDevice" -> 50 + device_index(r) * 20
      [] c = "SparkplugBDevice" -> 60 + device_index(r) * 15
      [] OTHER -> 100

\* self.seq_number after construction (classes without one: None)
initial_seq(c, r) ==
    CASE c = "SparkplugBWaterLevelSimulator" -> 0
      [] c = "SparkplugBDevice" -> device_index(r)
      [] OTHER -> None

\* [min_water_level, max_water_level] of a class, in mm
min_water_level == 0
max_water_level(c) == IF c \in FlagClasses THEN 5000 ELSE 3000

\* The draws explored in a run. A fleet explores one draw of the generator and
\* two publish outcomes per thread; the same classes run alone explore more.
\* values of math.sin(...) in thousandths
SinDraws(p) == IF p \in FleetPrograms THEN {1000} ELSE {-1000, 1000}
\* values of random.uniform(-a, a) as multiples of a
NoiseDraws(p) == IF p \in FleetPrograms THEN {1} ELSE {-1, 1}
\* outcome of one publish attempt: success, a non-success result code, or
\* an exception raised by serialization or by client.publish
PublishResults(p) ==
    IF p \in FleetPrograms THEN {"ok", "exception"}
    ELSE {"ok", "rc", "exception"}

\* rain parameters of SparkplugBWaterLevelSimulator
rain_rise_rate == 20
alert_level == 1000

----------------------------------------------------------------------------
(* Pure computations of the generators and the sequencer *)

Clamp(lo, hi, x) == Max(lo, Min(hi, x))

\* the off-by-one wrap: 254 is followed by 0
NextSeq_WrapEarly(s) == IF s + 1 >= 255 THEN 0 ELSE s + 1

\* the wrap test off by one: 256 is let through
NextSeq_WrapLate(s) == IF s + 1 > 256 THEN 0 ELSE s + 1

\* self.seq_number += 1; if self.seq_number > 255: self.seq_number = 0
NextSeq(s) == IF s + 1 > 255 THEN 0 ELSE s + 1

\* the end test with the comparison turned round
RainIsOver_Early(t, start, dur) == t - start <= dur * 1000

\* current_time - self.rain_start_time >= self.rain_duration
RainIsOver(t, start, dur) == t - start >= dur * 1000

\* a check that starts a new event on a successful draw whether or not one
\* is active
check_and_update_rain_event_Reentrant(active, start, dur, t, start_draw, d) ==
    IF start_draw
    THEN [active |-> TRUE, start |-> t, duration |-> d, change |-> "start"]
    ELSE IF active /\ RainIsOver(t, start, dur)
         THEN [active |-> FALSE, start |-> start, duration |-> dur,
               change |-> "end"]
         ELSE [active |-> active, start |-> start, duration |-> dur,
               change |-> "none"]

\* a check that raises the flag without recording start time and duration
check_and_update_rain_event_NoRecord(active, start, dur, t, start_draw, d) ==
    IF active
    THEN [active |-> ~RainIsOver(t, start, dur), start |-> start,
          duration |-> dur,
          change |-> IF RainIsOver(t, start, dur) THEN "end" ELSE "none"]
    ELSE [active |-> start_draw, start |-> start, duration |-> dur,
          change |-> IF start_draw THEN "start" ELSE "none"]

\* a check that may start the next event in the very call that ends one
check_and_update_rain_event_Chained(active, start, dur, t, start_draw, d) ==
    IF active
    THEN IF RainIsOver(t, start, dur)
         THEN IF start_draw
              THEN [active |-> TRUE, start |-> t, duration |-> d,
                    change |-> "start"]
              ELSE [active |-> FALSE, start |-> start, duration |-> dur,
                    change |-> "end"]
         ELSE [active |-> TRUE, start |-> start, duration |-> dur,
               change |-> "none"]
    ELSE IF start_draw
         THEN [active |-> TRUE, start |-> t, duration |-> d,
               change |-> "start"]
         ELSE [active |-> FALSE, start |-> start, duration |-> dur,
               change |-> "none"]

\* check_and_update_rain_event: the rain state after the check made at time
\* t, given the draw of random.random() < rain_probability (start_draw) and of
\* random.randint(120, 300) (d); change is "start", "end" or "none"
check_and_update_rain_event(active, start, dur, t, start_draw, d) ==
    IF active
    THEN IF RainIsOver(t, start, dur)
         THEN [active |-> FALSE, start |-> start, duration |-> dur,
               change |-> "end"]
         ELSE [active |-> TRUE, start |-> start, duration |-> dur,
               change |-> "none"]
    ELSE IF start_draw
         THEN [active |-> TRUE, start |-> t, duration |-> d,
               change |-> "start"]
         ELSE [active |-> FALSE, start |-> start, duration |-> dur,
               change |-> "none"]

\* rise_amount = self.rain_rise_rate * self.send_interval
rise_amount(c, r) == (rain_rise_rate * send_interval(c, r)) \div 1000

\* max_level = self.alert_level * 1.5
max_level == (alert_level * 15) \div 10

\* the rain branch without its cap
RainLevel_NoCap(level, c, r) == level + rise_amount(c, r)

\* rain branch of create_ndata_payload
RainLevel(level, c, r) == Min(level + rise_amount(c, r), max_level)

\* descent_rate = 0.01 * (self.send_interval / 5.0)
descent_rate(c, r) == (10 * send_interval(c, r)) \div 5000

\* target_level = base_water_level + sin(t/100) * 0.1 + uniform(-0.05, 0.05)
target_level(c, r, sin, u) ==
    base_water_level(c, r) + (sin * 100) \div 1000 + u * 50

\* a normal-weather branch that goes straight to the target
IdleLevel_Snap(level, c, r, sin, u) ==
    Clamp(0, 3000, target_level(c, r, sin, u))

\* normal-weather branch of create_ndata_payload
IdleLevel(level, c, r, sin, u) ==
    LET target == target_level(c, r, sin, u)
        lvl == IF level > target
               THEN Max(target, level - descent_rate(c, r))
               ELSE target
    IN  Clamp(0, 3000, lvl)

\* WaterLevelSimulator.generate_water_level_data
SimulatorLevel(c, r, sin, u) ==
    Clamp(0, 3000, base_water_level(c, r) + (sin * 100) \div 1000 + u * 50)

\* WaterLevelDevice.generate_sensor_data
DeviceLevel(c, r, sin, u) ==
    Clamp(0, 5000, base_water_level(c, r)
                   + (sin * max_variation(c, r) * 7) \div 10000 + u * 30)

\* SparkplugBDevice.generate_sparkplug_payload
SparkplugDeviceLevel(c, r, sin, u) ==
    Clamp(0, 5000, base_water_level(c, r)
                   + (sin * max_variation(c, r) * 8) \div 10000 + u * 20)

\* one call of the class's generator at time t with the draws sin, u,
\* start_draw, d, made on an object whose level and rain state are s: the
\* level and rain state the call leaves behind (the level is the one the
\* call reports)
GeneratorCall(c, r, s, t, sin, u, start_draw, d) ==
    CASE c = "SparkplugBWaterLevelSimulator" ->
           LET rs == check_and_update_rain_event(s.active, s.start,
                                                 s.duration, t, start_draw, d)
           IN  [level |-> IF rs.active THEN RainLevel(s.level, c, r)
                          ELSE IdleLevel(s.level, c, r, sin, u),
                active |-> rs.active, start |-> rs.start,
                duration |-> rs.duration]
      [] c = "SparkplugBDevice" ->
           [s EXCEPT !.level = SparkplugDeviceLevel(c, r, sin, u)]
      [] c = "WaterLevelSimulator" ->
           [s EXCEPT !.level = SimulatorLevel(c, r, sin, u)]
      [] OTHER ->
           [s EXCEPT !.level = DeviceLevel(c, r, sin, u)]

\* end_time = start_time + (duration_minutes * 60) if duration_minutes else None
EndTime(t, dur) == IF dur = None \/ dur = 0 THEN None ELSE t + dur * 60000

\* a deadline test that never succeeds
DeadlinePassed_Never(t, e) == FALSE

\* if end_time and time.time() > end_time
DeadlinePassed(t, e) == e # None /\ e # 0 /\ t > e

----------------------------------------------------------------------------
(* Payloads and publish attempts *)

\* names: the metrics carry a non-empty name; props: they carry the
\* Engineering Units and Description properties
\* self.metric_aliases
metric_aliases ==
    [n \in {"WaterLevel", "BatteryVoltage", "SignalStrength"} |->
        CASE n = "WaterLevel" -> 1
          [] n = "BatteryVoltage" -> 3
          [] n = "SignalStrength" -> 4]

\* one metric of a payload: its name ("" when none is given), alias, data
\* type, and whether it carries the Engineering Units and Description
\* properties
Metric(name, alias, dataType, props) ==
    [name |-> name, alias |-> alias, dataType |-> dataType,
     unit |-> props, description |-> props]

\* create_nbirt_payload: addMetric(payload, name, alias, Float, value)
NbirthMetrics ==
    {Metric("WaterLevel", 1, "Float", FALSE),
     Metric("BatteryVoltage", 3, "Float", FALSE),
     Metric("SignalStrength", 4, "Float", FALSE)}

\* data frames that renumber a metric
NdataMetrics_Renumbered ==
    {Metric("", 1, "Float", FALSE), Metric("", 2, "Float", FALSE),
     Metric("", 4, "Float", FALSE)}

\* create_ndata_payload: addMetric(payload, "", alias, Float, value)
NdataMetrics ==
    {Metric("", 1, "Float", FALSE), Metric("", 3, "Float", FALSE),
     Metric("", 4, "Float", FALSE)}

\* generate_sparkplug_payload: create_sparkplug_metric(name, value, type,
\* unit, description), alias = self.metric_aliases.get(name, 0)
SparkplugJsonMetrics ==
    {Metric("WaterLevel", metric_aliases["WaterLevel"], "Float", TRUE),
     Metric("BatteryVoltage", metric_aliases["BatteryVoltage"], "Float", TRUE),
     Metric("SignalStrength", metric_aliases["SignalStrength"], "Int32", TRUE)}

NoPayload ==
    [kind |-> "none", seq |-> None, value |-> 0,
     names |-> FALSE, props |-> FALSE, metrics |-> {}]

\* create_nbirt_payload: addMetric(payload, "WaterLevel", 1, Float, ...)
NbirthPayload(c, r, seq) ==
    [kind |-> "NBIRTH", seq |-> seq, value |-> base_water_level(c, r) * 10,
     names |-> TRUE, props |-> FALSE, metrics |-> NbirthMetrics]

\* create_ndata_payload: addMetric(payload, "", 1, Float, round(cm, 2))
NdataPayload(level, seq) ==
    [kind |-> "NDATA", seq |-> seq, value |-> level * 10,
     names |-> FALSE, props |-> FALSE, metrics |-> NdataMetrics]

\* generate_sparkplug_payload: every metric from create_sparkplug_metric
\* with name, alias, dataType, Engineering Units and Description
SparkplugJsonPayload(level, seq) ==
    [kind |-> "SPARKPLUG_JSON", seq |-> seq, value |-> level * 10,
     names |-> TRUE, props |-> TRUE, metrics |-> SparkplugJsonMetrics]

\* generate_water_level_data / generate_sensor_data: a plain JSON object
TelemetryPayload(level) ==
    [kind |-> "TELEMETRY", seq |-> None, value |-> level,
     names |-> FALSE, props |-> FALSE, metrics |-> {}]

\* topic a payload is published on
TopicOf(c, p) ==
    IF c = "SparkplugBWaterLevelSimulator"
    THEN (IF p.kind = "NBIRTH" THEN "NBIRTH" ELSE "NDATA")
    ELSE "telemetry"

\* qos = 0 if message_type == "NBIRTH" else 1; qos=1 in the other classes
QosOf(c, p) ==
    IF c = "SparkplugBWaterLevelSimulator" /\ p.kind = "NBIRTH" THEN 0 ELSE 1

NoPub ==
    [topic |-> "none", qos |-> 0, kind |-> "none", seq |-> None,
     names |-> FALSE, props |-> FALSE, result |-> "none"]

Publication(c, p, res) ==
    [topic |-> TopicOf(c, p), qos |-> QosOf(c, p), kind |-> p.kind,
     seq |-> p.seq, names |-> p.names, props |-> p.props, result |-> res]

----------------------------------------------------------------------------
(* Initial state: the objects right after construction *)

Snapshot(r) ==
    [seq |-> seq_number[r], level |-> current_level[r],
     active |-> rain_event_active[r], start |-> rain_start_time[r],
     duration |-> rain_duration[r]]

InitObserved(programs, durations, consumers) ==
    /\ program \in programs
    /\ now = StartTime
    /\ duration_minutes \in durations
    /\ pc = [r \in Runners |-> "new"]
    /\ running = [r \in Runners |-> FALSE]
    /\ current_level =
          [r \in Runners |-> base_water_level(ClassOf(program), r)]
    /\ seq_number = [r \in Runners |-> initial_seq(ClassOf(program), r)]
    /\ rain_event_active = [r \in Runners |-> FALSE]
    /\ rain_start_time = [r \in Runners |-> None]
    /\ rain_duration = [r \in Runners |-> 0]
    /\ end_time = [r \in Runners |-> None]
    /\ start_time = [r \in Runners |-> None]
    /\ wake = [r \in Runners |-> 0]
    /\ payload = [r \in Runners |-> NoPayload]
    /\ pending = [r \in Runners |-> FALSE]
    /\ connect_ok = [r \in Runners |-> "none"]
    /\ connack = [r \in Runners |-> None]
    /\ disconnects = [r \in Runners |-> 0]
    /\ at_start =
          [r \in Runners |->
              [seq |-> initial_seq(ClassOf(program), r),
               level |-> base_water_level(ClassOf(program), r),
               active |-> FALSE, start |-> None, duration |-> 0]]
    /\ prev_seq = [r \in Runners |-> None]
    /\ frames = [r \in Runners |-> 0]
    /\ births = [r \in Runners |-> 0]
    /\ first_topic = [r \in Runners |-> "none"]
    /\ last_pub = [r \in Runners |-> NoPub]
    /\ cpc = IF program \in FleetPrograms THEN "new" ELSE "none"
    /\ crunning = FALSE
    /\ ck = 0
    /\ interrupts = 0
    /\ calls = 0
    /\ simulators = <<>>
    /\ consumer \in consumers
    /\ observed = [r \in Runners |-> None]

\* the programs run with nobody subscribed to their topics
InitWith(programs, durations) == InitObserved(programs, durations, {FALSE})

\* the programs started with one of the usual duration arguments
InitOf(programs) == InitWith(programs, DurationDraws)

\* one simulator object driven by the main thread
Init == InitOf(SinglePrograms)

\* a coordinator with its device_configs
FleetInit == InitOf(FleetPrograms)

simVars == <<current_level, seq_number, rain_event_active, rain_start_time,
             rain_duration, payload, prev_seq>>
pubVars == <<frames, births, first_topic, last_pub>>
coordVars == <<cpc, crunning, ck>>
fixedVars == <<program, duration_minutes>>
callVars == <<calls, simulators>>
obsVars == <<consumer, observed>>

----------------------------------------------------------------------------
(* One run of a runner: start_simulation / run_simulation *)

\* top of the loop: `while self.running` is a step of its own, `while True`
\* goes straight to the generator call
LoopPc(c) == IF c \in FlagClasses THEN "loop" ELSE "generate"

\* the main thread calls start_simulation / run_simulation on the one object
Call(r) ==
    /\ program \in SinglePrograms
    /\ r \in RunnersOf(program)
    /\ pc[r] = "new"
    /\ pc' = [pc EXCEPT ![r] = "connect"]
    /\ at_start' = [at_start EXCEPT ![r] = Snapshot(r)]
    /\ calls' = calls + 1
    /\ UNCHANGED <<now, running, simVars, end_time, start_time, wake, pending,
                   connect_ok, disconnects, pubVars, coordVars, interrupts,
                   fixedVars, obsVars, connack, simulators>>

\* history of a run, as it stands when the run is called
NewRun(f, r, v) == [f EXCEPT ![r] = v]

\* the main thread calls start_simulation / run_simulation again on the same
\* object after an earlier run has ended
CallAgain(r) ==
    /\ program \in SinglePrograms
    /\ r \in RunnersOf(program)
    /\ pc[r] \in {"done", "raised"}
    /\ calls < MaxCalls
    /\ pc' = [pc EXCEPT ![r] = "connect"]
    /\ at_start' = [at_start EXCEPT ![r] = Snapshot(r)]
    /\ calls' = calls + 1
    /\ connect_ok' = NewRun(connect_ok, r, "none")
    /\ disconnects' = NewRun(disconnects, r, 0)
    /\ pending' = NewRun(pending, r, FALSE)
    /\ frames' = NewRun(frames, r, 0)
    /\ births' = NewRun(births, r, 0)
    /\ first_topic' = NewRun(first_topic, r, "none")
    /\ UNCHANGED <<now, running, simVars, end_time, start_time, wake,
                   last_pub, coordVars, interrupts, fixedVars, obsVars, connack, simulators>>

\* a run that goes on after a failed connect
ConnectResultPc_Ignored(ok) == "started"

\* if not self.connect(): return
ConnectResultPc(ok) == IF ok THEN "started" ELSE "done"

\* connect / connect_mqtt: True, or False when client.connect raises
Connect(r) ==
    /\ pc[r] = "connect"
    /\ \E ok \in BOOLEAN :
          /\ pc' = [pc EXCEPT ![r] = ConnectResultPc(ok)]
          /\ connect_ok' = [connect_ok EXCEPT
                               ![r] = IF ok THEN "ok" ELSE "failed"]
    /\ UNCHANGED <<now, running, simVars, end_time, start_time, wake, pending,
                   disconnects, at_start, pubVars, coordVars, interrupts,
                   fixedVars, obsVars, connack, callVars>>

\* the statements between the connect call and the try block
Started(r) ==
    LET c == ClassOf(program) IN
    /\ pc[r] = "started"
    /\ IF c = "SparkplugBWaterLevelSimulator"
       THEN \* time.sleep(1)
            /\ pc' = [pc EXCEPT ![r] = "conn_wait"]
            /\ wake' = [wake EXCEPT ![r] = Min(now + 1000, MaxTime)]
            /\ UNCHANGED <<running, end_time, start_time>>
       ELSE \* self.running = True (classes with the flag); end_time = ...
            /\ pc' = [pc EXCEPT ![r] = LoopPc(c)]
            /\ running' = [running EXCEPT
                              ![r] = IF c \in FlagClasses THEN TRUE ELSE @]
            /\ start_time' = [start_time EXCEPT ![r] = now]
            /\ end_time' = [end_time EXCEPT
                               ![r] = EndTime(now, duration_minutes)]
            /\ UNCHANGED wake
    /\ UNCHANGED <<now, simVars, pending, connect_ok, disconnects, at_start,
                   pubVars, coordVars, interrupts, fixedVars, obsVars, connack, callVars>>

\* nbirth_payload = self.create_nbirt_payload()
Birth(r) ==
    LET c == ClassOf(program) IN
    /\ pc[r] = "birth"
    /\ payload' = [payload EXCEPT
                      ![r] = NbirthPayload(c, r, seq_number[r])]
    /\ prev_seq' = [prev_seq EXCEPT ![r] = payload[r].seq]
    /\ seq_number' = [seq_number EXCEPT ![r] = NextSeq(@)]
    /\ pc' = [pc EXCEPT ![r] = "send_birth"]
    /\ UNCHANGED <<now, running, current_level, rain_event_active,
                   rain_start_time, rain_duration, end_time, start_time, wake,
                   pending, connect_ok, disconnects, at_start, pubVars,
                   coordVars, interrupts, fixedVars, obsVars, connack, callVars>>

\* a publish failure that escapes the handler and ends the loop
AfterSendPc_Propagate(at, res) ==
    IF res = "exception" THEN "finally"
    ELSE IF at = "send_birth" THEN "birth_wait" ELSE "deadline"

\* send_sparkplug_data / send_data log every failure and return
AfterSendPc(at, res) == IF at = "send_birth" THEN "birth_wait" ELSE "deadline"

\* what a subscribed consumer has seen last of runner r's frames: a publish
\* that returned MQTT_ERR_SUCCESS reaches it, a failed attempt does not
Received(seen, r, pub) ==
    IF consumer /\ pub.result = "ok" THEN [seen EXCEPT ![r] = pub.seq]
    ELSE seen

\* send_sparkplug_data / send_data: one publish attempt
Send(r) ==
    LET c == ClassOf(program) IN
    /\ pc[r] \in {"send_birth", "send"}
    /\ \E res \in PublishResults(program) :
          LET pub == Publication(c, payload[r], res) IN
          /\ frames' = [frames EXCEPT ![r] = Min(@ + 1, MaxCount)]
          /\ births' = [births EXCEPT
                           ![r] = IF pub.topic = "NBIRTH"
                                  THEN Min(@ + 1, MaxCount) ELSE @]
          /\ first_topic' = [first_topic EXCEPT
                                ![r] = IF frames[r] = 0 THEN pub.topic ELSE @]
          /\ last_pub' = [last_pub EXCEPT ![r] = pub]
          /\ observed' = Received(observed, r, pub)
          /\ pc' = [pc EXCEPT ![r] = AfterSendPc(pc[r], res)]
          \* time.sleep(0.5) after the birth frame
          /\ wake' = [wake EXCEPT
                         ![r] = IF AfterSendPc(pc[r], res) = "birth_wait"
                                THEN Min(now + 500, MaxTime) ELSE @]
    /\ UNCHANGED <<now, running, simVars, end_time, start_time, pending,
                   connect_ok, disconnects, at_start, coordVars, interrupts,
                   fixedVars, consumer, connack, callVars>>

\* a time.sleep of the runner returns
Wake(r) ==
    /\ pc[r] \in {"conn_wait", "birth_wait", "sleep"}
    /\ now >= wake[r]
    /\ pc' = [pc EXCEPT ![r] = IF pc[r] = "conn_wait" THEN "birth"
                               ELSE LoopPc(ClassOf(program))]
    \* start_time = time.time(); end_time = ... after the birth frame
    /\ start_time' = [start_time EXCEPT
                         ![r] = IF pc[r] = "birth_wait" THEN now ELSE @]
    /\ end_time' = [end_time EXCEPT
                       ![r] = IF pc[r] = "birth_wait"
                              THEN EndTime(now, duration_minutes) ELSE @]
    /\ UNCHANGED <<now, running, simVars, wake, pending, connect_ok,
                   disconnects, at_start, pubVars, coordVars, interrupts,
                   fixedVars, obsVars, connack, callVars>>

\* a loop test that does not read the flag
LoopTestPc_Ignored(flag) == "generate"

\* while self.running: the loop body when the flag is up, else the finally
\* block
LoopTestPc(flag) == IF flag THEN "generate" ELSE "finally"

\* while self.running:
Loop(r) ==
    /\ pc[r] = "loop"
    /\ pc' = [pc EXCEPT ![r] = LoopTestPc(running[r])]
    /\ UNCHANGED <<now, running, simVars, end_time, start_time, wake, pending,
                   connect_ok, disconnects, at_start, pubVars, coordVars,
                   interrupts, fixedVars, obsVars, connack, callVars>>

\* every thread bound to the run method of the first simulator
target_Shared(r) == 1

\* threading.Thread(target=simulator.run_simulation): the object whose
\* attributes the run of runner r reads and writes
target(r) == r

\* one generator call of the tick: create_ndata_payload,
\* generate_water_level_data, generate_sensor_data, generate_sparkplug_payload
Generate(r) ==
    LET c == ClassOf(program)
        self == target(r)
    IN
    /\ pc[r] = "generate"
    /\ program \in FleetPrograms => frames[r] < MaxFleetTicks
    /\ \E sin \in SinDraws(program), u \in NoiseDraws(program) :
          CASE c = "SparkplugBWaterLevelSimulator" ->
                 \E start_draw \in BOOLEAN, d \in RainDurationDraws :
                    LET rs == check_and_update_rain_event(
                                  rain_event_active[self], rain_start_time[self],
                                  rain_duration[self], now, start_draw, d)
                        lvl == IF rs.active
                               THEN RainLevel(current_level[self], c, self)
                               ELSE IdleLevel(current_level[self], c, self, sin, u)
                    IN  \* an event is started only if it ends by MaxTime
                        /\ rs.change = "start" => now + d * 1000 <= MaxTime
                        /\ rain_event_active' =
                              [rain_event_active EXCEPT ![self] = rs.active]
                        /\ rain_start_time' =
                              [rain_start_time EXCEPT ![self] = rs.start]
                        /\ rain_duration' =
                              [rain_duration EXCEPT ![self] = rs.duration]
                        /\ current_level' = [current_level EXCEPT ![self] = lvl]
                        /\ payload' = [payload EXCEPT
                                          ![self] = NdataPayload(lvl, seq_number[self])]
                        /\ prev_seq' = [prev_seq EXCEPT ![self] = payload[self].seq]
                        /\ seq_number' = [seq_number EXCEPT ![self] = NextSeq(@)]
            [] c = "SparkplugBDevice" ->
                 LET lvl == SparkplugDeviceLevel(c, self, sin, u) IN
                 /\ current_level' = [current_level EXCEPT ![self] = lvl]
                 /\ payload' = [payload EXCEPT
                                   ![self] = SparkplugJsonPayload(lvl, seq_number[self])]
                 /\ prev_seq' = [prev_seq EXCEPT ![self] = payload[self].seq]
                 /\ seq_number' = [seq_number EXCEPT ![self] = NextSeq(@)]
                 /\ UNCHANGED <<rain_event_active, rain_start_time,
                                rain_duration>>
            [] OTHER ->
                 LET lvl == IF c = "WaterLevelSimulator"
                            THEN SimulatorLevel(c, self, sin, u)
                            ELSE DeviceLevel(c, self, sin, u) IN
                 /\ current_level' = [current_level EXCEPT ![self] = lvl]
                 /\ payload' = [payload EXCEPT ![self] = TelemetryPayload(lvl)]
                 /\ UNCHANGED <<seq_number, prev_seq, rain_event_active,
                                rain_start_time, rain_duration>>
    /\ pc' = [pc EXCEPT ![r] = "send"]
    /\ UNCHANGED <<now, running, end_time, start_time, wake, pending,
                   connect_ok, disconnects, at_start, pubVars, coordVars,
                   interrupts, fixedVars, obsVars, connack, callVars>>

\* an exception that ends the run of every thread inside its try block
AfterError_All(f, r) ==
    [q \in DOMAIN f |-> IF q = r \/ f[q] \in {"loop", "generate", "send",
                                              "deadline", "sleep"}
                        THEN "finally" ELSE f[q]]

\* except Exception as e: the handler belongs to the run that raised; that
\* run goes on to its finally block
AfterError(f, r) == [f EXCEPT ![r] = "finally"]

\* an exception raised inside the try block outside the publish call:
\* `except Exception` logs it and the finally block runs
GenerateRaises(r) ==
    /\ pc[r] \in {"birth", "generate"}
    /\ pc' = AfterError(pc, r)
    /\ UNCHANGED <<now, running, simVars, end_time, start_time, wake, pending,
                   connect_ok, disconnects, at_start, pubVars, coordVars,
                   interrupts, fixedVars, obsVars, connack, callVars>>

\* if end_time and time.time() > end_time: break  /  time.sleep(send_interval)
Deadline(r) ==
    LET c == ClassOf(program) IN
    /\ pc[r] = "deadline"
    /\ IF DeadlinePassed(now, end_time[r])
       THEN /\ pc' = [pc EXCEPT ![r] = "finally"]
            /\ UNCHANGED wake
       ELSE /\ pc' = [pc EXCEPT ![r] = "sleep"]
            /\ wake' = [wake EXCEPT
                           ![r] = Min(now + send_interval(c, r), MaxTime)]
    /\ UNCHANGED <<now, running, simVars, end_time, start_time, pending,
                   connect_ok, disconnects, at_start, pubVars, coordVars,
                   interrupts, fixedVars, obsVars, connack, callVars>>

\* finally: self.disconnect() / self.disconnect_mqtt()
Disconnect(r) ==
    /\ pc[r] = "finally"
    /\ disconnects' = [disconnects EXCEPT ![r] = Min(@ + 1, MaxCount)]
    /\ pc' = [pc EXCEPT ![r] = IF pending[r] THEN "raised" ELSE "done"]
    /\ pending' = [pending EXCEPT ![r] = FALSE]
    /\ UNCHANGED <<now, running, simVars, end_time, start_time, wake,
                   connect_ok, at_start, pubVars, coordVars, interrupts,
                   fixedVars, obsVars, connack, callVars>>

\* result codes the broker's answer to a connection request can carry:
\* 0 accepted, 5 refused (not authorized)
ConnackCodes == {0, 5}

\* _on_connect(client, userdata, flags, rc), called on the client's network
\* thread (loop_start) when the broker's answer arrives after connect
\* returned: logs the result code
OnConnect(r) ==
    /\ r \in RunnersOf(program)
    /\ connect_ok[r] = "ok"
    /\ pc[r] \notin {"done", "raised"}
    /\ connack[r] = None
    /\ \E rc \in ConnackCodes : connack' = [connack EXCEPT ![r] = rc]
    /\ UNCHANGED <<now, pc, running, simVars, end_time, start_time, wake,
                   pending, connect_ok, disconnects, at_start, pubVars,
                   coordVars, interrupts, fixedVars, obsVars, callVars>>

\* positions inside the try block of the run
TryPcs == {"birth", "send_birth", "birth_wait", "loop", "generate", "send",
           "deadline", "sleep"}
\* positions of the run outside its try block
OutsideTryPcs == {"connect", "started", "conn_wait", "finally"}

\* KeyboardInterrupt delivered to the main thread while it executes the run:
\* inside the try block it is caught (except KeyboardInterrupt) or, in the
\* classes that only catch Exception, passes through the finally block;
\* anywhere else it leaves the run at once
Interrupt(r) ==
    LET c == ClassOf(program) IN
    /\ program \in SinglePrograms
    /\ r \in RunnersOf(program)
    /\ interrupts < MaxInterrupts
    /\ pc[r] \in TryPcs \cup OutsideTryPcs
    /\ interrupts' = interrupts + 1
    /\ IF pc[r] \in TryPcs
       THEN /\ pc' = [pc EXCEPT ![r] = "finally"]
            /\ pending' = [pending EXCEPT ![r] = c \notin CatchingClasses]
       ELSE /\ pc' = [pc EXCEPT ![r] = "raised"]
            /\ UNCHANGED pending
    /\ UNCHANGED <<now, running, simVars, end_time, start_time, wake,
                   connect_ok, disconnects, at_start, pubVars, coordVars,
                   fixedVars, obsVars, connack, callVars>>

\* time passes until the earliest pending wake-up
AdvanceClock ==
    LET sleepers == {r \in Runners :
                        /\ pc[r] \in {"conn_wait", "birth_wait", "sleep"}
                        /\ wake[r] > now}
    IN  /\ sleepers # {}
        /\ \E r \in sleepers :
              /\ \A q \in sleepers : wake[r] <= wake[q]
              /\ now' = wake[r]
        /\ UNCHANGED <<pc, running, simVars, end_time, start_time, wake,
                       pending, connect_ok, disconnects, at_start, pubVars,
                       coordVars, interrupts, fixedVars, obsVars, connack, callVars>>

----------------------------------------------------------------------------
(* Fleet coordinator: start_all_simulators / stop_all_simulators *)

\* create_simulators: one new runner object per profile, with
\* device_index = i + 1, appended to self.simulators
create_simulators(list) == list \o [i \in 1..NumProfiles |-> i]

\* self.create_simulators(); self.running = True
StartAll ==
    /\ cpc = "new"
    /\ cpc' = "starting"
    /\ simulators' = create_simulators(simulators)
    /\ calls' = calls + 1
    /\ crunning' = TRUE
    /\ ck' = 1
    /\ UNCHANGED <<now, pc, running, simVars, end_time, start_time, wake,
                   pending, connect_ok, disconnects, at_start, pubVars,
                   interrupts, fixedVars, obsVars, connack>>

\* thread.start(): the thread of simulators[ck] enters run_simulation. The
\* threads explored are those of the runner objects of the first
\* create_simulators call.
StartThread ==
    /\ cpc = "starting"
    /\ ck \in Runners
    /\ pc' = [pc EXCEPT ![ck] = "connect"]
    /\ at_start' = [at_start EXCEPT ![ck] = Snapshot(ck)]
    /\ connect_ok' = NewRun(connect_ok, ck, "none")
    /\ disconnects' = NewRun(disconnects, ck, 0)
    /\ pending' = NewRun(pending, ck, FALSE)
    /\ frames' = NewRun(frames, ck, 0)
    /\ births' = NewRun(births, ck, 0)
    /\ first_topic' = NewRun(first_topic, ck, "none")
    /\ cpc' = IF ck = Len(simulators) THEN "joining" ELSE "starting"
    /\ ck' = IF ck = Len(simulators) THEN 1 ELSE ck + 1
    /\ UNCHANGED <<now, running, simVars, end_time, start_time, wake,
                   last_pub, crunning, interrupts, fixedVars, obsVars, connack, callVars>>

\* a join that does not wait
ThreadEnded_NoWait(p) == TRUE

\* the thread's target has returned or has been left by an exception
ThreadEnded(p) == p \in {"done", "raised"}

\* thread.join() returns once the thread's run has ended
Join ==
    /\ cpc = "joining"
    /\ ThreadEnded(pc[ck])
    /\ cpc' = IF ck = Len(simulators) THEN "returned" ELSE "joining"
    /\ ck' = IF ck = Len(simulators) THEN ck ELSE ck + 1
    /\ UNCHANGED <<now, pc, running, simVars, end_time, start_time, wake,
                   pending, connect_ok, disconnects, at_start, pubVars,
                   crunning, interrupts, fixedVars, obsVars, connack, callVars>>

\* KeyboardInterrupt in the main thread of a fleet: while joining it is caught
\* and stop_all_simulators begins (self.running = False); in the start loop
\* or inside stop_all_simulators it leaves start_all_simulators
InterruptCoordinator ==
    /\ interrupts < MaxInterrupts
    /\ cpc \in {"starting", "joining", "stopping"}
    /\ interrupts' = interrupts + 1
    /\ IF cpc = "joining"
       THEN /\ cpc' = "stopping"
            /\ crunning' = FALSE
            /\ ck' = 1
       ELSE /\ cpc' = "raised"
            /\ UNCHANGED <<crunning, ck>>
    /\ UNCHANGED <<now, pc, running, simVars, end_time, start_time, wake,
                   pending, connect_ok, disconnects, at_start, pubVars,
                   fixedVars, obsVars, connack, callVars>>

\* a stop that flips the flag
stop_Toggle(flags, r) == [flags EXCEPT ![r] = ~@]

\* WaterLevelDevice.stop / SparkplugBDevice.stop: self.running = False
stop(flags, r) == [flags EXCEPT ![r] = FALSE]

\* for simulator in self.simulators: simulator.stop(), over the runners in
\* the given order
RECURSIVE StopEach(_, _)
StopEach(flags, order) ==
    IF order = <<>> THEN flags
    ELSE StopEach(stop(flags, Head(order)), Tail(order))

\* stop_all_simulators as a whole, on the coordinator's flag and the
\* runners' flags: self.running = False, then the loop of stop calls
stop_all_simulators(st, order) ==
    [crunning |-> FALSE, running |-> StopEach(st.running, order)]

\* for simulator in self.simulators: simulator.stop()
StopOne ==
    /\ cpc = "stopping"
    /\ running' = stop(running, ck)
    /\ cpc' = IF ck = Len(simulators) THEN "returned" ELSE "stopping"
    /\ ck' = IF ck = Len(simulators) THEN ck ELSE ck + 1
    /\ UNCHANGED <<now, pc, simVars, end_time, start_time, wake, pending,
                   connect_ok, disconnects, at_start, pubVars, crunning,
                   interrupts, fixedVars, obsVars, connack, callVars>>

\* start_all_simulators called again on the same coordinator, after an
\* earlier call has ended and the threads it started have ended
StartAllAgain ==
    /\ cpc \in {"returned", "raised"}
    /\ calls < MaxCalls
    /\ \A r \in Runners : pc[r] \in {"new", "done", "raised"}
    /\ cpc' = "starting"
    /\ simulators' = create_simulators(simulators)
    /\ calls' = calls + 1
    /\ crunning' = TRUE
    /\ ck' = 1
    /\ UNCHANGED <<now, pc, running, simVars, end_time, start_time, wake,
                   pending, connect_ok, disconnects, at_start, pubVars,
                   interrupts, fixedVars, obsVars, connack>>

----------------------------------------------------------------------------
(* Specifications *)

RunnerStep(r) ==
    \/ Connect(r)
    \/ Started(r)
    \/ Send(r)
    \/ Wake(r)
    \/ Loop(r)
    \/ Generate(r)
    \/ Deadline(r)
    \/ Disconnect(r)

Next ==
    \/ \E r \in Runners : Call(r)
    \/ \E r \in Runners : RunnerStep(r)
    \/ \E r \in Runners : Birth(r)
    \/ \E r \in Runners : GenerateRaises(r)
    \/ \E r \in Runners : Interrupt(r)
    \/ AdvanceClock

\* the four classes, each run on its own by the main thread
Spec == Init /\ [][Next]_vars

FleetNext ==
    \/ \E r \in Runners : RunnerStep(r)
    \/ \E r \in Runners : GenerateRaises(r)
    \/ AdvanceClock
    \/ StartAll
    \/ StartThread
    \/ Join
    \/ InterruptCoordinator
    \/ StopOne

\* the two coordinators, each with its two runner threads
FleetSpec == FleetInit /\ [][FleetNext]_vars

\* the four classes run with a duration argument that is not None
DeadlineDraws == {0, 1}
DeadlineInit == InitWith(SinglePrograms, DeadlineDraws)
DeadlineSpec == DeadlineInit /\ [][Next]_vars

\* sessions: the Sparkplug classes, whose run may be called again on the
\* same object once it has ended
SessionInit == InitWith(SparkplugClasses, {1})
SessionNext ==
    \/ Next
    \/ \E r \in Runners : CallAgain(r)
SessionSpec == SessionInit /\ [][SessionNext]_vars

\* coordinators whose start_all_simulators may be called again once an
\* earlier call has ended
RecallNext ==
    \/ FleetNext
    \/ StartAllAgain
RecallInit == InitWith(FleetPrograms, {1})
RecallSpec == RecallInit /\ [][RecallNext]_vars

\* the four classes run with a duration against a broker whose answer to the
\* connection request reaches the _on_connect callback
RefusalInit == InitWith(SinglePrograms, {1})
RefusalNext ==
    \/ Next
    \/ \E r \in Runners : OnConnect(r)
RefusalSpec == RefusalInit /\ [][RefusalNext]_vars

\* the Sparkplug classes run with a duration while a consumer is subscribed
\* to their topics
ConsumerInit == InitObserved(SparkplugClasses, {1}, {TRUE})
ConsumerSpec == ConsumerInit /\ [][Next]_vars

\* a fleet run with a duration and never interrupted
QuietInit == InitWith(FleetPrograms, {1})
QuietNext ==
    \/ \E r \in Runners : RunnerStep(r)
    \/ \E r \in Runners : GenerateRaises(r)
    \/ AdvanceClock
    \/ StartAll
    \/ StartThread
    \/ Join
QuietSpec == QuietInit /\ [][QuietNext]_vars

\* a run whose ticks keep occurring: every enabled step of the run is
\* eventually taken and time passes while the runner sleeps
Fairness ==
    /\ \A r \in Runners : WF_vars(RunnerStep(r) \/ Birth(r))
    /\ WF_vars(AdvanceClock)

FairSpec == Spec /\ Fairness

----------------------------------------------------------------------------
(* Properties *)

\* the run of r has ended: returned, or left by a propagating exception
Ended(r) == pc[r] \in {"done", "raised"}

\* step of r that is its generator call (one tick's payload is created)
TickOf(r) == pc[r] = "generate" /\ pc'[r] = "send"

\* C1: for every Sparkplug device, each payload created after another one
\* carries the earlier payload's seq plus one modulo 256 (births and data
\* frames alike, across the 255 -> 0 wrap).
C1_SeqConsecutive ==
    \A r \in Runners :
        prev_seq[r] # None => payload[r].seq = (prev_seq[r] + 1) % 256

\* C1 witness: SparkplugBWaterLevelSimulator has created the payload that
\* follows seq 255.
C1_Witness ==
    /\ program = "SparkplugBWaterLevelSimulator"
    /\ prev_seq[1] = 255
    /\ payload[1].seq = 0

\* C2: in every session of a Sparkplug device the first frame published is a
\* birth frame and exactly one birth frame is published (so no data frame
\* precedes it).
C2_BirthFirst ==
    \A r \in Runners :
        (ClassOf(program) \in SparkplugClasses /\ frames[r] > 0)
            => (first_topic[r] = "NBIRTH" /\ births[r] = 1)

\* C3: every frame a Sparkplug device publishes after the first frame of its
\* session, the birth frame, carries no metric name, unit or description.
C3_DataFramesAliasOnly ==
    \A r \in Runners :
        (/\ ClassOf(program) \in SparkplugClasses
         /\ frames[r] >= 2
         /\ last_pub[r].topic # "NBIRTH")
            => (~last_pub[r].names /\ ~last_pub[r].props)

\* C4: the water level of every device lies within the
\* [min_water_level, max_water_level] of its class after every tick.
C4_LevelWithinRange ==
    \A r \in RunnersOf(program) :
        /\ min_water_level <= current_level[r]
        /\ current_level[r] <= max_water_level(ClassOf(program))

\* C4 witness: a raining tick of SparkplugBWaterLevelSimulator has just set
\* the level, which stands at the cap of the rain branch.
C4_Witness ==
    /\ program = "SparkplugBWaterLevelSimulator"
    /\ pc[1] = "send"
    /\ rain_event_active[1]
    /\ rain_start_time[1] < now
    /\ current_level[1] = max_level

\* C5: on every tick processed while a rain event is active, the tick that
\* starts the event included, the level after the tick is not lower than the
\* level before it.
C5_RainNonDecreasing ==
    [][\A r \in Runners :
          (TickOf(r) /\ rain_event_active'[r])
              => current_level'[r] >= current_level[r]]_vars

\* C6: a rain event ends only on a tick at which the time elapsed since
\* rain_start_time is at least rain_duration; and while the ticks of the run
\* keep occurring, an active rain event eventually ends.
C6_RainEndsOnTime ==
    /\ [][\A r \in Runners :
             (rain_event_active[r] /\ ~rain_event_active'[r])
                 => now - rain_start_time[r] >= rain_duration[r] * 1000]_vars
    /\ \A r \in Runners :
          rain_event_active[r]
              ~> (~rain_event_active[r] \/ pc[r] = "finally" \/ Ended(r))

\* C6 witness: a tick has just ended a rain event.
C6_Witness ==
    /\ pc[1] = "send"
    /\ ~rain_event_active[1]
    /\ rain_start_time[1] # None
    /\ now - rain_start_time[1] >= rain_duration[1] * 1000
    /\ payload[1].kind = "NDATA"

\* C7: once connect has succeeded, a run that has ended, however it ended,
\* has called disconnect exactly once.
C7_DisconnectOnEveryExit ==
    \A r \in Runners :
        (connect_ok[r] = "ok" /\ Ended(r)) => disconnects[r] = 1

\* C8: after a failed connect the run has returned, no frame was created or
\* published, and seq_number, current_level and the rain state are those the
\* object had when the run was called.
C8_FailedConnectEndsRun ==
    \A r \in Runners :
        connect_ok[r] = "failed"
            => /\ pc[r] = "done"
               /\ payload[r] = NoPayload
               /\ frames[r] = 0
               /\ disconnects[r] = 0
               /\ Snapshot(r) = at_start[r]

\* C8 witness: a run whose connect failed.
C8_Witness ==
    \E r \in Runners : connect_ok[r] = "failed" /\ pc[r] = "done"

\* C9: a publish attempt that fails (result code or exception) leaves the
\* runner in its loop: the step takes it to the deadline check (after the
\* birth frame: to the wait that precedes the loop), never out of the loop.
C9_PublishFailureKeepsLoop ==
    [][\A r \in Runners :
          (/\ pc[r] \in {"send", "send_birth"}
           /\ pc'[r] # pc[r]
           /\ interrupts' = interrupts
           /\ last_pub'[r].result \in {"rc", "exception"})
              => pc'[r] = (IF pc[r] = "send" THEN "deadline"
                           ELSE "birth_wait")]_vars

\* C9 witness: the publish of the previous tick failed and the runner is
\* about to publish the frame of the next tick.
C9_Witness ==
    \E r \in Runners :
        /\ pc[r] = "send"
        /\ frames[r] >= 2
        /\ last_pub[r].result \in {"rc", "exception"}
        /\ last_pub[r].seq # payload[r].seq

\* stop_all_simulators has run and start_all_simulators has returned
StopAllReturned == cpc = "returned" /\ ~crunning

\* C10: after stop_all_simulators has set every flag and returned, every
\* runner that connected leaves its loop. With no duration set the loop
\* `while self.running` ends only by the flag, so a connected runner is by then
\* out of the loop, or holds running = FALSE and leaves at its next test.
C10_StopReachesEveryRunner ==
    (StopAllReturned /\ duration_minutes = None)
        => \A r \in Runners :
               connect_ok[r] = "ok"
                   => (~running[r] \/ pc[r] = "finally" \/ Ended(r))

\* C11: when start_all_simulators was interrupted while joining, it has not
\* returned before every runner that connected has left its loop and
\* disconnected: once stop_all_simulators is over and the call has returned,
\* each connected runner's run has ended with its one disconnect.
C11_StopWaitsForRunners ==
    StopAllReturned
        => \A r \in Runners :
               connect_ok[r] = "ok" => (Ended(r) /\ disconnects[r] = 1)

\* C12: with a duration_minutes that is not None (0 included), the deadline
\* check made once the clock is past start_time + duration_minutes * 60
\* takes the run out of its loop, to the finally block and the return.
C12_DeadlineEndsRun ==
    [][\A r \in Runners :
          (/\ pc[r] = "deadline"
           /\ pc'[r] # pc[r]
           /\ duration_minutes # None
           /\ start_time[r] # None
           /\ now > start_time[r] + duration_minutes * 60000)
              => pc'[r] = "finally"]_vars

\* C13: in every state the seq_number of a Sparkplug device is an integer in
\* 0..255, as is the seq of every payload it created, and once the payload
\* with seq 255 is created the counter stands at 0, so that the payload
\* created after it carries seq 0.
C13_SeqWithinByte ==
    \A r \in RunnersOf(program) :
        ClassOf(program) \in SparkplugClasses
            => /\ seq_number[r] \in 0..255
               /\ payload[r].seq \in 0..255 \cup {None}
               /\ payload[r].seq = 255 => seq_number[r] = 0
               /\ prev_seq[r] = 255 => payload[r].seq = 0

\* C13 witness: a SparkplugBDevice has just created the payload with seq 255
\* and its counter has wrapped to 0.
C13_Witness ==
    /\ program = "SparkplugBDevice"
    /\ pc[1] = "send"
    /\ payload[1].seq = 255
    /\ seq_number[1] = 0

\* C14: in every session of SparkplugBWaterLevelSimulator, a second call of
\* start_simulation on the same object included, the birth frame carries
\* seq 0 and the first data frame created after it carries seq 1.
C14_SessionStartsAtZero ==
    \A r \in Runners :
        program = "SparkplugBWaterLevelSimulator"
            => /\ payload[r].kind = "NBIRTH" => payload[r].seq = 0
               /\ (/\ payload[r].kind = "NDATA"
                   /\ pc[r] = "send"
                   /\ frames[r] = 1
                   /\ births[r] = 1) => payload[r].seq = 1

\* C15: a birth frame defines every metric of the alias table with its name,
\* its alias from the table, a data type, its unit and its description, and
\* creating it advanced the counter by one from the seq the frame carries.
C15_BirthDefinesMetrics ==
    \A r \in Runners :
        payload[r].kind = "NBIRTH"
            => /\ {m.name : m \in payload[r].metrics} = DOMAIN metric_aliases
               /\ \A m \in payload[r].metrics :
                      /\ m.alias = metric_aliases[m.name]
                      /\ m.dataType \in {"Float", "Int32"}
                      /\ m.unit
                      /\ m.description
               /\ seq_number[r] = NextSeq(payload[r].seq)

\* C16: every metric of a data frame of SparkplugBWaterLevelSimulator carries
\* an alias and a data type that the birth frame declares together for one
\* metric, and that alias is the one the alias table gives to that name;
\* distinct metrics of a frame carry distinct aliases.
C16_AliasesAsDeclared ==
    \A r \in Runners :
        payload[r].kind = "NDATA"
            => /\ \A m \in payload[r].metrics :
                      \E b \in NbirthMetrics :
                          /\ b.alias = m.alias
                          /\ b.dataType = m.dataType
                          /\ metric_aliases[b.name] = m.alias
               /\ Cardinality({m.alias : m \in payload[r].metrics})
                      = Cardinality(DOMAIN metric_aliases)

\* C16 witness: a data frame has been published after the birth frame of
\* the session.
C16_Witness ==
    /\ program = "SparkplugBWaterLevelSimulator"
    /\ pc[1] = "deadline"
    /\ births[1] = 1
    /\ last_pub[1].kind = "NDATA"
    /\ payload[1].metrics = NdataMetrics

\* C17: in a fleet, a step of one runner's tick (its generator call or its
\* publish call) leaves the level, the seq counter, the rain state, the
\* payload and the publish history of every other runner as they were, and
\* leaves the coordinator's list of runners as it was.
C17_TickTouchesOwnStateOnly ==
    [][\A r \in Runners :
          (pc[r] \in {"generate", "send"} /\ pc'[r] # pc[r])
              => /\ \A q \in Runners \ {r} :
                        /\ Snapshot(q)' = Snapshot(q)
                        /\ payload'[q] = payload[q]
                        /\ prev_seq'[q] = prev_seq[q]
                        /\ frames'[q] = frames[q]
                        /\ last_pub'[q] = last_pub[q]
                        /\ running'[q] = running[q]
                 /\ simulators' = simulators]_vars

\* C17 witness: runner 2 has made a generator call while runner 1 is inside
\* its loop with a frame already published and a level of its own.
C17_Witness ==
    /\ program \in FleetPrograms
    /\ pc[2] = "send"
    /\ pc[1] \in TryPcs
    /\ frames[1] >= 1
    /\ current_level[1] # current_level[2]

\* C18: once start_all_simulators has been called, the coordinator's list
\* holds exactly one runner per device profile and the device_index values
\* in it are pairwise distinct.
C18_OneRunnerPerProfile ==
    calls >= 1
        => /\ Len(simulators) = NumProfiles
           /\ \A i, j \in 1..Len(simulators) :
                 simulators[i] = simulators[j] => i = j

\* what a runner's run consists of: its position, flag, simulation state,
\* deadline, sleep, connection and publish history
RunOf(r) ==
    <<pc[r], running[r], Snapshot(r), end_time[r], wake[r], connect_ok[r],
      disconnects[r], frames[r], last_pub[r]>>

\* C19: in a fleet, the step in which one runner's connect fails or in which
\* an error ends its loop leaves the run of every other runner as it was;
\* and a runner of a fleet sleeps for its own send_interval and leaves its
\* loop without an error of its own only when its own deadline has passed
\* or its own flag is down.
C19_FailureStaysLocal ==
    [][\A q \in Runners :
          /\ (\/ connect_ok[q] # "failed" /\ connect_ok'[q] = "failed"
              \/ pc[q] = "generate" /\ pc'[q] = "finally")
                 => \A r \in Runners \ {q} : RunOf(r)' = RunOf(r)
          /\ (pc[q] = "deadline" /\ pc'[q] = "sleep")
                 => wake'[q] = Min(now + send_interval(ClassOf(program), q),
                                   MaxTime)
          /\ (pc[q] \in {"loop", "deadline", "sleep"} /\ pc'[q] = "finally")
                 => \/ DeadlinePassed(now, end_time[q])
                    \/ ~running[q]]_vars

\* C19 witness: runner 2 failed to connect and its run has ended, while
\* runner 1 connected, published every tick explored and sleeps for its own
\* interval before the next one.
C19_Witness ==
    /\ program \in FleetPrograms
    /\ connect_ok[2] = "failed"
    /\ pc[2] = "done"
    /\ connect_ok[1] = "ok"
    /\ frames[1] = MaxFleetTicks
    /\ pc[1] = "sleep"
    /\ running[1]
    /\ wake[1] = now + send_interval(ClassOf(program), 1)

\* C20: every publish attempt of a birth frame goes to the NBIRTH topic at
\* QoS 0, every publish attempt of a Sparkplug data frame goes to the NDATA
\* topic at QoS 1, and every publish attempt of a simple-protocol telemetry
\* object goes to the telemetry topic at QoS 1.
C20_TopicAndQosPerFrame ==
    \A r \in Runners :
        /\ last_pub[r].kind = "NBIRTH"
              => last_pub[r].topic = "NBIRTH" /\ last_pub[r].qos = 0
        /\ last_pub[r].kind \in {"NDATA", "SPARKPLUG_JSON"}
              => last_pub[r].topic = "NDATA" /\ last_pub[r].qos = 1
        /\ last_pub[r].kind = "TELEMETRY"
              => last_pub[r].topic = "telemetry" /\ last_pub[r].qos = 1

\* level and rain state of runner r
LevelState(r) ==
    [level |-> current_level[r], active |-> rain_event_active[r],
     start |-> rain_start_time[r], duration |-> rain_duration[r]]

\* C21: whenever a runner is about to call its generator, calling it twice
\* in a row with the same clock value and the same draws reports the same
\* water level both times.
C21_GeneratorRepeatable ==
    \A r \in RunnersOf(program) :
        pc[r] = "generate"
            => \A sin \in SinDraws(program), u \in NoiseDraws(program),
                  start_draw \in BOOLEAN, d \in RainDurationDraws :
                  LET c == ClassOf(program)
                      first == GeneratorCall(c, r, LevelState(r), now,
                                             sin, u, start_draw, d)
                      second == GeneratorCall(c, r, first, now,
                                              sin, u, start_draw, d)
                  IN  second.level = first.level

\* the orders in which the runners of the list can be visited
Orders == {o \in [1..NumProfiles -> Runners] :
              \A i, j \in 1..NumProfiles : o[i] = o[j] => i = j}

\* C22: from every reachable state of a fleet, stop_all_simulators applied
\* twice leaves the coordinator's flag and every runner's flag as one
\* application leaves them, and so does one application that visits the
\* runners in any other order.
C22_StopAllIdempotent ==
    program \in FleetPrograms
        => LET st == [crunning |-> crunning, running |-> running]
               order == [i \in 1..NumProfiles |-> i]
               once == stop_all_simulators(st, order)
           IN  /\ stop_all_simulators(once, order) = once
               /\ \A o \in Orders : stop_all_simulators(st, o) = once

\* C22 witness: stop_all_simulators has run over both runners, one of which
\* was inside its loop with its flag up when the call began.
C22_Witness ==
    /\ StopAllReturned
    /\ \A r \in Runners : ~running[r]
    /\ \E r \in Runners : pc[r] \in {"generate", "send", "deadline", "sleep"}

\* levels in mm at which the rain branch is also evaluated: below, at and
\* above the level from which one rise reaches the cap
LevelSamples == {0, 100, 299, 300, 301, 1350, 1500, 1650, 3000}

\* C23: every tick of SparkplugBWaterLevelSimulator made while raining sets
\* the level to the previous level plus rain_rise_rate * send_interval, or
\* to alert_level * 1.5 when that sum is larger; the level after a raining
\* tick is at most alert_level * 1.5, and a level at that cap before a later
\* tick of the same event is at the cap after it.
C23_RainTickRisesToCap ==
    [][\A r \in Runners :
          (TickOf(r) /\ rain_event_active'[r])
              => LET c == ClassOf(program)
                     risen == current_level[r]
                                + (rain_rise_rate * send_interval(c, r))
                                     \div 1000
                     cap == (alert_level * 3) \div 2
                 IN  /\ current_level'[r] = IF risen < cap THEN risen ELSE cap
                     /\ current_level'[r] <= cap
                     /\ (rain_event_active[r] /\ current_level[r] = cap)
                            => current_level'[r] = cap
                     /\ \A l \in LevelSamples :
                            RainLevel(l, c, r)
                               = IF l + (risen - current_level[r]) < cap
                                 THEN l + (risen - current_level[r])
                                 ELSE cap]_vars

\* C23 witness: a tick of a rain event that began at an earlier tick has
\* left the level at the cap.
C23_Witness ==
    /\ program = "SparkplugBWaterLevelSimulator"
    /\ pc[1] = "send"
    /\ rain_event_active[1]
    /\ now >= rain_start_time[1] + send_interval(ClassOf(program), 1)
    /\ current_level[1] = max_level

\* C24: every tick of SparkplugBWaterLevelSimulator made while not raining
\* leaves a level that is at most the descent step 0.01 * send_interval / 5
\* below the previous level and not below the tick's oscillation target;
\* when the previous level is above the target by more than the step, the
\* new level is the previous level minus the step and not the target.
C24_IdleDescentBounded ==
    [][\A r \in Runners :
          (/\ TickOf(r)
           /\ ClassOf(program) = "SparkplugBWaterLevelSimulator"
           /\ ~rain_event_active'[r])
              => LET c == ClassOf(program)
                     step == (10 * send_interval(c, r)) \div 5000
                 IN  /\ current_level'[r] >= current_level[r] - step
                     /\ \E sin \in SinDraws(program), u \in NoiseDraws(program) :
                           LET goal == base_water_level(c, r)
                                         + (sin * 100) \div 1000 + u * 50
                           IN  /\ current_level'[r]
                                     = IdleLevel(current_level[r], c, r, sin, u)
                               /\ current_level'[r] >= goal
                               /\ current_level[r] - goal > step
                                     => /\ current_level'[r]
                                              = current_level[r] - step
                                        /\ current_level'[r] # goal]_vars

\* C24 witness: the first tick after a rain event has ended found the level
\* at the rain cap, more than one step above its target, and lowered it by
\* one step.
C24_Witness ==
    /\ program = "SparkplugBWaterLevelSimulator"
    /\ pc[1] = "send"
    /\ ~rain_event_active[1]
    /\ rain_start_time[1] # None
    /\ now >= rain_start_time[1] + rain_duration[1] * 1000
    /\ current_level[1] = max_level - descent_rate(ClassOf(program), 1)

\* C25: a step changes rain_start_time or rain_duration of a runner only if
\* it is a tick of that runner that finds no rain event active and leaves
\* one active; a tick made while an event is active changes neither.
C25_NoReentryWhileRaining ==
    [][\A r \in Runners :
          /\ (\/ rain_start_time'[r] # rain_start_time[r]
              \/ rain_duration'[r] # rain_duration[r])
                 => /\ TickOf(r)
                    /\ ~rain_event_active[r]
                    /\ rain_event_active'[r]
          /\ (TickOf(r) /\ rain_event_active[r])
                 => /\ rain_start_time'[r] = rain_start_time[r]
                    /\ rain_duration'[r] = rain_duration[r]]_vars

\* C25 witness: a tick has been made while the event that an earlier tick
\* started was still active.
C25_Witness ==
    /\ program = "SparkplugBWaterLevelSimulator"
    /\ pc[1] = "send"
    /\ rain_event_active[1]
    /\ now > rain_start_time[1]
    /\ now < rain_start_time[1] + rain_duration[1] * 1000

\* C26: in every state in which a runner's rain event is active, its
\* rain_start_time is set (not None, and not later than the clock) and its
\* rain_duration is an integer number of seconds within 120..300.
C26_ActiveRainHasStartAndDuration ==
    \A r \in Runners :
        rain_event_active[r]
            => /\ rain_start_time[r] # None
               /\ rain_start_time[r] \in StartTime..now
               /\ rain_duration[r] \in 120..300

\* C26 witness: an event with the longest duration explored is active.
C26_Witness ==
    /\ program = "SparkplugBWaterLevelSimulator"
    /\ rain_event_active[1]
    /\ rain_duration[1] = 180
    /\ rain_start_time[1] > StartTime

\* C27: when a runner's generator call does not deliver a payload and no
\* interrupt arrives, the runner stays inside its loop: it goes on to the
\* deadline check, the sleep or the next tick, and does not leave for the
\* finally block or end its run.
C27_GeneratorErrorDropsTickOnly ==
    [][\A r \in Runners :
          (/\ pc[r] = "generate"
           /\ pc'[r] \notin {"generate", "send"}
           /\ interrupts' = interrupts)
              => pc'[r] \in {"loop", "deadline", "sleep"}]_vars

\* C28: once the _on_connect callback of a runner has been given a non-zero
\* result code, the runner makes no publish attempt and builds no payload:
\* its run is over or on its way out through the finally block.
C28_RefusedConnectionAbortsRun ==
    [][\A r \in Runners :
          (connack[r] # None /\ connack[r] # 0)
              => /\ frames'[r] = frames[r]
                 /\ payload'[r] = payload[r]
                 /\ pc'[r] \in {pc[r], "finally", "done", "raised"}]_vars

\* C29: once stop() has lowered the flag of a runner that is inside its
\* loop, the flag stays down; a tick already begun goes on to its publish
\* call and deadline check; from the deadline check on the runner builds and
\* publishes nothing more: its sleep returns no earlier than its full
\* length, and the next test of the flag takes it to the finally block.
C29_StopIsCooperative ==
    [][\A r \in Runners :
          (/\ ~running[r]
           /\ pc[r] \in {"loop", "generate", "send", "deadline", "sleep"}
           /\ pc'[r] # pc[r])
              => /\ ~running'[r]
                 /\ pc[r] = "generate" => pc'[r] \in {"send", "finally"}
                 /\ pc[r] = "send" => pc'[r] = "deadline"
                 /\ pc[r] = "deadline"
                       => /\ pc'[r] \in {"sleep", "finally"}
                          /\ frames'[r] = frames[r]
                 /\ pc[r] = "sleep"
                       => /\ pc'[r] = "loop"
                          /\ now >= wake[r]
                          /\ frames'[r] = frames[r]
                 /\ pc[r] = "loop"
                       => /\ pc'[r] = "finally"
                          /\ frames'[r] = frames[r]]_vars

\* C29 witness: stop_all_simulators has returned while runner 1, its flag
\* down, is still in the sleep that follows a published frame.
C29_Witness ==
    /\ program \in FleetPrograms
    /\ StopAllReturned
    /\ ~running[1]
    /\ pc[1] = "sleep"
    /\ now < wake[1]
    /\ frames[1] >= 1

\* C30: as long as no interrupt has been delivered, start_all_simulators
\* waits on a thread only when every runner's thread has been started, and
\* has returned only when the run of every runner has ended.
C30_StartAllThenJoinAll ==
    interrupts = 0
        => /\ cpc = "joining" => \A r \in Runners : pc[r] # "new"
           /\ cpc = "returned" => \A r \in Runners : Ended(r)
           /\ cpc = "starting" => \A r \in Runners : r >= ck => pc[r] = "new"

\* C30 witness: start_all_simulators has returned without an interrupt after
\* runner 2 failed to connect and runner 1 published and then ended its run.
C30_Witness ==
    /\ program \in FleetPrograms
    /\ interrupts = 0
    /\ cpc = "returned"
    /\ connect_ok[2] = "failed"
    /\ connect_ok[1] = "ok"
    /\ frames[1] >= 1
    /\ disconnects[1] = 1

\* C31: every frame that reaches the consumer after an earlier one carries
\* the earlier frame's seq plus one modulo 256, whatever publish attempts
\* failed in between.
C31_ConsumerSeesNoGap ==
    [][\A r \in Runners :
          (observed[r] # None /\ observed'[r] # observed[r])
              => observed'[r] = (observed[r] + 1) % 256]_vars

\* C32: for both device classes of the fleets, any two distinct device_index
\* values give different send_interval, different max_variation and a
\* different period divisor; in particular the runners in the coordinator's
\* list differ pairwise in all three.
C32_ProfilesDiffer ==
    program \in FleetPrograms
        => LET c == ClassOf(program)
               Differ(i, j) ==
                   /\ send_interval(c, i) # send_interval(c, j)
                   /\ max_variation(c, i) # max_variation(c, j)
                   /\ period_divisor(c, i) # period_divisor(c, j)
           IN  /\ \A i, j \in 1..MaxDeviceIndex : i # j => Differ(i, j)
               /\ \A i, j \in 1..Len(simulators) :
                     simulators[i] # simulators[j]
                         => Differ(simulators[i], simulators[j])

\* C32 witness: both runners of the coordinator's list sleep between ticks,
\* each for an interval of its own.
C32_Witness ==
    /\ program \in FleetPrograms
    /\ Len(simulators) = NumProfiles
    /\ pc[1] = "sleep"
    /\ pc[2] = "sleep"
    /\ frames[1] = 1
    /\ frames[2] = 1
    /\ wake[1] # wake[2]

\* C33: in a run with a duration of at least one minute, the deadline check
\* made once the clock is past end_time takes the runner out of its loop;
\* and a frame published when the clock is past end_time is the first such
\* frame: the deadline check before it, one send_interval earlier, was made
\* no later than end_time.
C33_OneFrameAfterDeadline ==
    [][\A r \in Runners :
          (/\ duration_minutes # None
           /\ duration_minutes >= 1
           /\ end_time[r] # None
           /\ now > end_time[r]
           /\ pc'[r] # pc[r])
              => /\ pc[r] = "deadline" => pc'[r] \in {"finally", "raised"}
                 /\ pc[r] = "send"
                       => wake[r] - send_interval(ClassOf(program), r)
                             <= end_time[r]]_vars

\* C33 witness: a run with a duration has published a frame after its
\* deadline, and the deadline check that followed has ended the loop.
C33_Witness ==
    /\ program \in SinglePrograms
    /\ duration_minutes = 1
    /\ interrupts = 0
    /\ pc[1] = "finally"
    /\ ~pending[1]
    /\ end_time[1] # None
    /\ now > end_time[1]
    /\ last_pub[1].result = "ok"
    /\ payload[1].kind # "NBIRTH"

\* C34: every publish attempt of a runner is made in a run whose connect
\* call returned success and whose disconnect call has not been made: a
\* runner stands at a publish call only in such a run, and only in such a
\* run does its count of published frames grow.
C34_PublishOnlyWhileConnected ==
    [][\A r \in Runners :
          /\ pc[r] \in {"send_birth", "send"}
                => connect_ok[r] = "ok" /\ disconnects[r] = 0
          /\ (frames'[r] > frames[r] \/ births'[r] > births[r])
                => connect_ok[r] = "ok" /\ disconnects[r] = 0]_vars

\* C34 witness: a run that connected and published has disconnected and
\* returned.
C34_Witness ==
    /\ program \in SinglePrograms
    /\ connect_ok[1] = "ok"
    /\ frames[1] >= 2
    /\ disconnects[1] = 1
    /\ pc[1] = "done"

\* C35: the tick that finds a rain event over ends it and does not start a
\* new one: the flag is down after the tick, start time and duration are
\* left as they were, and the frame of that tick is produced by the
\* normal-weather branch, so that an idle frame lies between the end of one
\* event and the start of the next.
C35_EndingTickIsIdle ==
    [][\A r \in Runners :
          LET c == ClassOf(program) IN
          (/\ c = "SparkplugBWaterLevelSimulator"
           /\ pc[r] = "generate" /\ pc'[r] = "send"
           /\ rain_event_active[r]
           /\ now - rain_start_time[r] >= rain_duration[r] * 1000)
              => /\ ~rain_event_active'[r]
                 /\ rain_start_time'[r] = rain_start_time[r]
                 /\ rain_duration'[r] = rain_duration[r]
                 /\ \E sin \in SinDraws(program), u \in NoiseDraws(program) :
                       /\ current_level'[r]
                             = IdleLevel(current_level[r], c, r, sin, u)
                       /\ payload'[r]
                             = NdataPayload(current_level'[r], seq_number[r])]_vars

\* C35 witness: the tick that ended a rain event has produced its frame
C35_Witness ==
    /\ ClassOf(program) = "SparkplugBWaterLevelSimulator"
    /\ pc[1] = "send"
    /\ ~rain_event_active[1]
    /\ rain_duration[1] \in RainDurationDraws
    /\ rain_start_time[1] # None
    /\ now - rain_start_time[1] >= rain_duration[1] * 1000
    /\ payload[1].kind = "NDATA"

\* C36: a runner whose run_simulation has returned has its running flag
\* down, and the coordinator's running flag is down once
\* start_all_simulators has returned with every runner finished.
C36_RunningOnlyWhileLoopActive ==
    /\ \A r \in Runners : pc[r] \in {"done", "raised"} => ~running[r]
    /\ (cpc = "returned" /\ \A r \in Runners : pc[r] \in {"done", "raised"})
          => ~crunning

====
